---- MODULE Spec2Model ----
(***************************************************************************)
(* Model of auria-router (src/src/lib.rs): the three routing strategies    *)
(* DeterministicRouter, GatingRouter and RoundRobinRouter and the AnyRouter *)
(* dispatcher, called from several threads.                                 *)
(*                                                                         *)
(* Representation of the machine types:                                    *)
(*  - u64 token_index: four 16-bit limbs, least significant first, so that *)
(*    the cast `token_index as u32` and the u32 addition keep their width. *)
(*  - ExpertId([u8; 32]): [head, rest]: bytes 0..3 are head, bytes 4..31   *)
(*    all equal rest (every id the model builds has this shape).           *)
(*  - f32: a record [k, v]; k is "num", "nan", "pinf" or "ninf".  A gate   *)
(*    weight is v tenths, a temperature v hundredths, an exponent argument *)
(*    v hundredths, an exponential or a probability v ten-thousandths.     *)
(*  - HashMap<ExpertId, f32>: a function; its iteration order is not fixed *)
(*    by the map's contents and is an input of every operation iterating.  *)
(***************************************************************************)
EXTENDS Integers, Sequences, FiniteSets, TLC

VARIABLES
    variant,          \* which AnyRouter variant the router value is
    expert_count,     \* DeterministicRouter.expert_count (u32)
    gate_weights,     \* GatingRouter.gate_weights
    temperature,      \* GatingRouter.temperature
    experts,          \* RoundRobinRouter.experts
    current,          \* RoundRobinRouter.current (AtomicUsize)
    overflow_checks,  \* build profile: TRUE = arithmetic overflow panics
    pc,               \* per thread: position inside a routing call
    call,             \* per thread: the call in flight (arguments, locals)
    last,             \* the last Deterministic/Gating call that returned or panicked
    pin,              \* the first route call made on the router as it is now
    starts,           \* the values fetch_add returned, in the order it ran
    entered           \* number of round-robin calls that went on to fetch_add

vars == <<variant, expert_count, gate_weights, temperature, experts, current,
          overflow_checks, pc, call, last, pin, starts, entered>>

----------------------------------------------------------------------------
(* Bounds of the model *)

\* the cursor is explored up to this value
MaxCursor == 4

\* the caller threads
Threads == {"t1", "t2"}

----------------------------------------------------------------------------
(* Tier and the activation width k *)

Tiers == {"Nano", "Standard", "Pro", "Max"}

K(tier) ==
    CASE tier = "Nano" -> 2
      [] tier = "Standard" -> 4
      [] tier = "Pro" -> 8
      [] tier = "Max" -> 16

----------------------------------------------------------------------------
(* ExpertId *)

\* [0u8; 32] with bytes[0..4] overwritten by b4
IdFromPrefix(b4) == [head |-> b4, rest |-> 0]

\* ExpertId([b; 32])
IdFill(b) == [head |-> <<b, b, b, b>>, rest |-> b]

\* byte j (0..31) of an ExpertId
Byte(id, j) == IF j < 4 THEN id.head[j + 1] ELSE id.rest

\* u32::to_le_bytes
to_le_bytes(val) ==
    << val % 256, (val \div 256) % 256, (val \div 65536) % 256,
       (val \div 16777216) % 256 >>

Limb == 65536

\* (token_index as u32) + i in u32, as [lo, hi, overflow]
U32AddSmall(token_index, i) ==
    LET lo == token_index[1] + i
        hi == token_index[2] + (lo \div Limb)
    IN  [lo |-> lo % Limb, hi |-> hi % Limb, overflow |-> hi >= Limb]

\* (hi * 2^16 + lo) % m for 1 <= m <= 2^15
U32Mod(hi, lo, m) == (((hi % m) * (Limb % m)) + (lo % m)) % m

\* u32::max(self, 1)
Max1(n) == IF n < 1 THEN 1 ELSE n

Panic == [panic |-> TRUE, expert_ids |-> << >>]
Decision(ids) == [panic |-> FALSE, expert_ids |-> ids]

\* DeterministicRouter::get_top_k_experts; oc = overflow checks of the build
get_top_k_experts(ec, token_index, k, oc) ==
    IF oc /\ \E i \in 0..(k - 1) : U32AddSmall(token_index, i).overflow
    THEN Panic
    ELSE Decision([n \in 1..k |->
            LET s == U32AddSmall(token_index, n - 1)
                val == U32Mod(s.hi, s.lo, Max1(ec))
            IN  IdFromPrefix(to_le_bytes(val))])

\* a route that answers from the arguments of the call before it
DeterministicRouter_route_cached(ec, tier, token_index, oc) ==
    get_top_k_experts(ec, IF last.op = "route" THEN last.token_index ELSE token_index,
                      K(tier), oc)

DeterministicRouter_route(ec, tier, token_index, oc) ==
    get_top_k_experts(ec, token_index, K(tier), oc)

----------------------------------------------------------------------------
(* f32 *)

Num(v) == [k |-> "num", v |-> v]
NaN == [k |-> "nan", v |-> 0]
PInf == [k |-> "pinf", v |-> 0]
NInf == [k |-> "ninf", v |-> 0]

IsNaN(a) == a.k = "nan"

\* a < b for a, b other than NaN
F32Less(a, b) ==
    CASE a.k = "ninf" -> b.k # "ninf"
      [] a.k = "pinf" -> FALSE
      [] OTHER -> \/ b.k = "pinf"
                  \/ b.k = "num" /\ a.v < b.v

\* f32::partial_cmp, with Option<Ordering> as a string
partial_cmp(a, b) ==
    IF IsNaN(a) \/ IsNaN(b) THEN "None"
    ELSE IF F32Less(a, b) THEN "Less"
    ELSE IF F32Less(b, a) THEN "Greater"
    ELSE "Equal"

\* f32::max: a NaN operand is ignored
f32_max(a, b) ==
    IF IsNaN(a) THEN b
    ELSE IF IsNaN(b) THEN a
    ELSE IF F32Less(a, b) THEN b ELSE a

\* a - b
f32_sub(a, b) ==
    IF IsNaN(a) \/ IsNaN(b) THEN NaN
    ELSE IF a.k = "num" /\ b.k = "num" THEN Num(a.v - b.v)
    ELSE IF a.k = b.k THEN NaN
    ELSE IF a.k = "pinf" \/ b.k = "ninf" THEN PInf
    ELSE NInf

\* d / t for a weight difference d (tenths) and a temperature t > 0
\* (hundredths); the quotient is in hundredths
f32_div_temperature(d, t) ==
    IF IsNaN(d) \/ IsNaN(t) THEN NaN
    ELSE IF t.k = "pinf" THEN (IF d.k = "num" THEN Num(0) ELSE NaN)
    ELSE IF d.k = "num" THEN Num((d.v * 1000) \div t.v)
    ELSE d

\* the argument (hundredths) at and below which f32 exp() is 0.0:
\* e^-104 is below half the least positive subnormal 2^-149
ExpUnderflow == -10400

\* e^(x/100) in ten-thousandths, for the arguments the model's weights and
\* temperatures produce
ExpTable(x) ==
    CASE x = 0 -> 10000
      [] x = -5 -> 9512
      [] x = -10 -> 9048
      [] x = -15 -> 8607
      [] x = -20 -> 8187
      [] x = -30 -> 7408
      [] x <= ExpUnderflow -> 0

\* f32::exp
f32_exp(x) ==
    CASE x.k = "nan" -> NaN
      [] x.k = "ninf" -> Num(0)
      [] x.k = "pinf" -> PInf
      [] OTHER -> Num(ExpTable(x.v))

\* a + b
f32_add(a, b) ==
    IF IsNaN(a) \/ IsNaN(b) THEN NaN
    ELSE IF a.k = "num" /\ b.k = "num" THEN Num(a.v + b.v)
    ELSE IF a.k = "num" THEN b
    ELSE IF b.k = "num" THEN a
    ELSE IF a.k = b.k THEN a ELSE NaN

\* e / sum for an exponential e >= 0 and a sum of exponentials
f32_div(e, sum) ==
    IF IsNaN(e) \/ IsNaN(sum) THEN NaN
    ELSE IF e.k = "num" /\ sum.k = "num"
         THEN (IF sum.v = 0 THEN (IF e.v = 0 THEN NaN ELSE PInf)
               ELSE Num((e.v * 10000) \div sum.v))
    ELSE IF e.k = "num" THEN Num(0)
    ELSE IF sum.k = "num" THEN e
    ELSE NaN

----------------------------------------------------------------------------
(* HashMap iteration and slice::sort_by *)

\* the orders in which a map with key set S can be iterated
IterOrders(S) ==
    { o \in [1..Cardinality(S) -> S] : \A i, j \in DOMAIN o : i # j => o[i] # o[j] }

Take(s, n) == SubSeq(s, 1, IF n < Len(s) THEN n ELSE Len(s))

\* the comparator with its operands exchanged: a.1.partial_cmp(b.1)
ByWeightAsc(w, x, y) == partial_cmp(w[x], w[y]) = "Less"

\* the comparator |a, b| b.1.partial_cmp(a.1).unwrap_or(Ordering::Equal)
\* reports Less for the entry keyed x against the entry keyed y
ByWeightDesc(w, x, y) == partial_cmp(w[y], w[x]) = "Less"

\* sort_by on a slice of at most 20 entries is an insertion sort: the tail
\* entry x moves left past every entry the comparator puts it before
RECURSIVE InsertTail(_, _, _)
InsertTail(w, s, x) ==
    IF s = << >> THEN << x >>
    ELSE IF ByWeightDesc(w, x, s[Len(s)])
         THEN Append(InsertTail(w, SubSeq(s, 1, Len(s) - 1), x), s[Len(s)])
         ELSE Append(s, x)

RECURSIVE SortFrom(_, _, _)
SortFrom(w, done, rest) ==
    IF rest = << >> THEN done
    ELSE SortFrom(w, InsertTail(w, done, Head(rest)), Tail(rest))

\* sorted.sort_by(...) on the entries of w collected in iteration order
sort_by(w, order) == SortFrom(w, << >>, order)

\* the sorted entries without take(k)
top_all(w, order, k) == sort_by(w, order)

\* sorted.iter().take(k).map(|(id, _)| **id).collect()
top_k(w, order, k) == Take(sort_by(w, order), k)

DeterministicRouter_route_with_weights(ec, tier, token_index, weights, order) ==
    Decision(top_k(weights, order, K(tier)))

----------------------------------------------------------------------------
(* GatingRouter *)

\* GatingRouter::new: temperature.max(0.01)
GatingRouter_new_temperature(t) == f32_max(t, Num(1))

RECURSIVE FoldMax(_, _, _)
FoldMax(w, order, acc) ==
    IF order = << >> THEN acc
    ELSE FoldMax(w, Tail(order), f32_max(acc, w[Head(order)]))

RECURSIVE FoldSum(_, _, _)
FoldSum(e, order, acc) ==
    IF order = << >> THEN acc
    ELSE FoldSum(e, Tail(order), f32_add(acc, e[Head(order)]))

\* an iteration order of a map with key set S
RECURSIVE SomeOrder(_)
SomeOrder(S) ==
    IF S = {} THEN << >>
    ELSE LET x == CHOOSE y \in S : TRUE IN << x >> \o SomeOrder(S \ {x})

\* GatingRouter::softmax; the two folds run in the iteration order of weights,
\* which max and the sum of these values do not depend on
softmax(weights, t) ==
    LET order == SomeOrder(DOMAIN weights)
        max_weight == FoldMax(weights, order, NInf)
        exp_weights == [id \in DOMAIN weights |->
            f32_exp(f32_div_temperature(f32_sub(weights[id], max_weight), t))]
        sum == FoldSum(exp_weights, order, Num(0))
    IN  [id \in DOMAIN weights |-> f32_div(exp_weights[id], sum)]

\* a route that takes the first k entries as the map yields them
GatingRouter_route_unsorted(gw, t, tier, token_index, porder) ==
    Decision(Take(porder, K(tier)))

\* porder: the iteration order of the map softmax builds
GatingRouter_route(gw, t, tier, token_index, porder) ==
    LET probs == softmax(gw, t)
    IN  Decision(top_k(probs, porder, K(tier)))

\* a route_with_weights that ranks the supplied map
GatingRouter_route_with_weights_external(gw, t, tier, token_index, weights, porder) ==
    Decision(top_k(weights, SomeOrder(DOMAIN weights), K(tier)))

GatingRouter_route_with_weights(gw, t, tier, token_index, weights, porder) ==
    GatingRouter_route(gw, t, tier, token_index, porder)

----------------------------------------------------------------------------
(* RoundRobinRouter *)

\* a rotation that advances by k per call
RoundRobinRouter_collect_chunked(ex, start, k) ==
    Decision([n \in 1..k |-> ex[((start * k + (n - 1)) % Len(ex)) + 1]])

\* (0..k).map(|i| self.experts[(start + i as usize) % self.experts.len()])
RoundRobinRouter_collect(ex, start, k) ==
    Decision([n \in 1..k |-> ex[((start + (n - 1)) % Len(ex)) + 1]])

\* a plain load in place of the fetch_add
fetch_add_load(cur) == [start |-> cur, stored |-> cur]

\* a cursor kept below a pool length of 3
fetch_add_wrapped(cur) == [start |-> cur, stored |-> (cur + 1) % 3]

\* self.current.fetch_add(1, Relaxed): the value returned and the value stored
fetch_add(cur) == [start |-> cur, stored |-> cur + 1]

----------------------------------------------------------------------------
(* Inputs *)

\* u64 token positions: 3, 2^32 - 1, 2^32 + 3
TokenIndexes == { <<3, 0, 0, 0>>, <<65535, 65535, 0, 0>>, <<3, 0, 1, 0>> }
\* the positions offered to the operations that ignore token_index
TokenPair == { <<3, 0, 0, 0>>, <<3, 0, 1, 0>> }
\* the positions offered to RoundRobinRouter
RRTokens == { <<3, 0, 1, 0>> }

ExpertCounts == {0, 5, 1024}

A == IdFill(1)
B == IdFill(2)
C == IdFill(3)

EmptyMap == << >>
\* {A: 0.5, B: 0.3, C: 0.2}
ScenarioC == (A :> Num(5)) @@ (B :> Num(3)) @@ (C :> Num(2))
\* equal weights
TiedMap == (A :> Num(3)) @@ (B :> Num(3)) @@ (C :> Num(5))
\* a NaN weight
NaNMap == (A :> NaN) @@ (B :> Num(3)) @@ (C :> Num(5))
\* {A: 0.5, B: -1000.0, C: -2000.0}
FarMap == (A :> Num(5)) @@ (B :> Num(-10000)) @@ (C :> Num(-20000))

\* the maps supplied to route_with_weights
WeightArgs == {EmptyMap, TiedMap, NaNMap}
\* the maps supplied to the strategies that ignore them
IgnoredArgs == {EmptyMap, TiedMap}
\* two entries, one weight NaN
NaNPair == (A :> NaN) @@ (B :> Num(3))
\* the maps given to set_gate_weights
GateMaps == {ScenarioC, FarMap, NaNPair}
\* the entries given to set_gate_weight
GateEntries == { <<B, Num(5)>> }
\* the temperatures given to GatingRouter::new: 1.0 and 2.0
Temperatures == {Num(100), Num(200)}
\* the pools given to RoundRobinRouter::new
Pools == { << >>, <<A, B, C>> }

----------------------------------------------------------------------------
(* The record of a call *)

NoToken == <<0, 0, 0, 0>>

NoCall ==
    [op |-> "none", tier |-> "Nano", token_index |-> NoToken, weights |-> EmptyMap,
     order |-> << >>, out |-> Decision(<< >>), start |-> 0, seq |-> 0,
     alone |-> TRUE]

CallRec(op, tier, token_index, weights, order, out) ==
    [op |-> op, tier |-> tier, token_index |-> token_index, weights |-> weights,
     order |-> order, out |-> out, start |-> 0, seq |-> 0, alone |-> TRUE]

Idle(t) == pc[t] = "idle"

----------------------------------------------------------------------------
(* Construction *)

InitCommon ==
    /\ pc = [t \in Threads |-> "idle"]
    /\ call = [t \in Threads |-> NoCall]
    /\ last = NoCall
    /\ pin = NoCall
    /\ starts = << >>
    /\ entered = 0
    /\ overflow_checks \in BOOLEAN

\* AnyRouter::Deterministic(DeterministicRouter::new(expert_count))
InitDeterministic ==
    /\ InitCommon
    /\ variant = "Deterministic"
    /\ expert_count \in ExpertCounts
    /\ gate_weights = EmptyMap /\ temperature = Num(100)
    /\ experts = << >> /\ current = 0

\* AnyRouter::Gating(GatingRouter::new(temperature))
InitGating ==
    /\ InitCommon
    /\ variant = "Gating"
    /\ gate_weights = EmptyMap
    /\ temperature \in { GatingRouter_new_temperature(t) : t \in Temperatures }
    /\ expert_count = 0
    /\ experts = << >> /\ current = 0

\* AnyRouter::RoundRobin(RoundRobinRouter::new(experts))
InitRoundRobin ==
    /\ InitCommon
    /\ variant = "RoundRobin"
    /\ experts \in Pools
    /\ current = 0
    /\ expert_count = 0
    /\ gate_weights = EmptyMap /\ temperature = Num(100)

Init == InitDeterministic \/ InitGating \/ InitRoundRobin

----------------------------------------------------------------------------
(* Routing calls; the guard on variant is AnyRouter's match *)

RouterFrame ==
    UNCHANGED <<variant, expert_count, gate_weights, temperature, experts,
                overflow_checks>>

\* a Deterministic or Gating call reads only state that no call in flight can
\* write (the setters take &mut self), so it is one step of whichever thread
Returned(rec) ==
    /\ \E r \in {rec} :
         /\ last' = r
         /\ pin' = IF r.op = "route" /\ pin.op = "none" THEN r ELSE pin
    /\ RouterFrame
    /\ UNCHANGED <<current, pc, call, starts, entered>>

DetRoute ==
    /\ variant = "Deterministic"
    /\ \E tier \in Tiers, token_index \in TokenIndexes :
         Returned(CallRec("route", tier, token_index, EmptyMap, << >>,
             DeterministicRouter_route(expert_count, tier, token_index,
                                       overflow_checks)))

DetRouteWithWeights ==
    /\ variant = "Deterministic"
    /\ \E weights \in WeightArgs :
         \E order \in IterOrders(DOMAIN weights), tier \in Tiers,
            token_index \in TokenPair :
           Returned(CallRec("route_with_weights", tier, token_index, weights,
               order,
               DeterministicRouter_route_with_weights(expert_count, tier,
                   token_index, weights, order)))

GateRoute ==
    /\ variant = "Gating"
    /\ \E porder \in IterOrders(DOMAIN gate_weights) :
         \E tier \in Tiers, token_index \in TokenPair :
           Returned(CallRec("route", tier, token_index, EmptyMap, << >>,
               GatingRouter_route(gate_weights, temperature, tier, token_index,
                                  porder)))

GateRouteWithWeights ==
    /\ variant = "Gating"
    /\ \E porder \in IterOrders(DOMAIN gate_weights) :
         \E tier \in Tiers, token_index \in TokenPair, weights \in IgnoredArgs :
           Returned(CallRec("route_with_weights", tier, token_index, weights,
               << >>,
               GatingRouter_route_with_weights(gate_weights, temperature, tier,
                   token_index, weights, porder)))

\* the setters take &mut self: no routing call is in flight; the records of
\* the calls made on the map being replaced are dropped
SetterFrame ==
    /\ \A t \in Threads : Idle(t)
    /\ last' = NoCall
    /\ pin' = NoCall
    /\ UNCHANGED <<variant, expert_count, temperature, experts, current,
                   overflow_checks, pc, call, starts, entered>>

\* HashMap::insert
insert(m, id, w) == [x \in (DOMAIN m) \cup {id} |-> IF x = id THEN w ELSE m[x]]

set_gate_weight(id, w) ==
    /\ variant = "Gating"
    /\ gate_weights' = insert(gate_weights, id, w)
    /\ SetterFrame

set_gate_weights(weights) ==
    /\ variant = "Gating"
    /\ gate_weights' = weights
    /\ SetterFrame

InFlight(t) == pc[t] \in {"fetch_add", "collect"}

\* RoundRobinRouter::route up to the fetch_add; op tells route from
\* route_with_weights, which delegates to it.  seq counts the calls that
\* entered before this one, alone tells that none overlapped it
RoundRobinRouter_enter(t, op, tier, token_index, weights) ==
    LET rec == [CallRec(op, tier, token_index, weights, << >>, Decision(<< >>))
                   EXCEPT !.seq = entered,
                          !.alone = \A u \in Threads : ~InFlight(u)]
    IN  IF experts = << >>
        THEN /\ call' = [call EXCEPT ![t] = rec]
             /\ pc' = [pc EXCEPT ![t] = "returned"]
             /\ UNCHANGED entered
        ELSE /\ call' = [u \in Threads |->
                           IF u = t THEN rec
                           ELSE IF InFlight(u) THEN [call[u] EXCEPT !.alone = FALSE]
                           ELSE call[u]]
             /\ pc' = [pc EXCEPT ![t] = "fetch_add"]
             /\ entered' = entered + 1

RREnterFrame == RouterFrame /\ UNCHANGED <<current, last, pin, starts>>

RRRoute(t) ==
    /\ variant = "RoundRobin" /\ Idle(t)
    /\ \E tier \in Tiers, token_index \in RRTokens :
         RoundRobinRouter_enter(t, "route", tier, token_index, EmptyMap)
    /\ RREnterFrame

RRRouteWithWeights(t) ==
    /\ variant = "RoundRobin" /\ Idle(t)
    /\ \E tier \in Tiers, token_index \in RRTokens, weights \in IgnoredArgs :
         RoundRobinRouter_enter(t, "route_with_weights", tier, token_index, weights)
    /\ RREnterFrame

RRFetchAdd(t) ==
    /\ pc[t] = "fetch_add"
    /\ current < MaxCursor
    /\ LET r == fetch_add(current)
       IN  /\ current' = r.stored
           /\ call' = [call EXCEPT ![t].start = r.start]
           /\ starts' = Append(starts, r.start)
    /\ pc' = [pc EXCEPT ![t] = "collect"]
    /\ RouterFrame
    /\ UNCHANGED <<last, pin, entered>>

RRCollect(t) ==
    /\ pc[t] = "collect"
    /\ call' = [call EXCEPT ![t].out =
                  RoundRobinRouter_collect(experts, call[t].start, K(call[t].tier))]
    /\ pc' = [pc EXCEPT ![t] = "returned"]
    /\ RouterFrame
    /\ UNCHANGED <<current, last, pin, starts, entered>>

\* the caller takes the decision; the thread is free for its next call
RRReturn(t) ==
    /\ pc[t] = "returned"
    /\ call' = [call EXCEPT ![t] = NoCall]
    /\ pc' = [pc EXCEPT ![t] = "idle"]
    /\ RouterFrame
    /\ UNCHANGED <<current, last, pin, starts, entered>>

NextDeterministic ==
    \/ DetRoute
    \/ DetRouteWithWeights

NextGating ==
    \/ GateRoute
    \/ GateRouteWithWeights
    \/ \E e \in GateEntries : set_gate_weight(e[1], e[2])
    \/ \E w \in GateMaps : set_gate_weights(w)

NextRoundRobin ==
    \/ \E t \in Threads : RRRoute(t)
    \/ \E t \in Threads : RRRouteWithWeights(t)
    \/ \E t \in Threads : RRFetchAdd(t)
    \/ \E t \in Threads : RRCollect(t)
    \/ \E t \in Threads : RRReturn(t)

Next == NextDeterministic \/ NextGating \/ NextRoundRobin

\* a router of any variant
Spec == Init /\ [][Next]_vars

\* one variant each
SpecDeterministic == InitDeterministic /\ [][NextDeterministic]_vars
SpecGating == InitGating /\ [][NextGating]_vars
SpecRoundRobin == InitRoundRobin /\ [][NextRoundRobin]_vars

----------------------------------------------------------------------------
(* Properties *)

Ids(r) == r.out.expert_ids
Range(q) == { q[i] : i \in DOMAIN q }
Pos(q, x) == CHOOSE i \in DOMAIN q : q[i] = x
Min(a, b) == IF a < b THEN a ELSE b

\* the calls that have returned and whose record is held
DGCall == last.op # "none"
RRCall(t) == variant = "RoundRobin" /\ pc[t] = "returned"
NoneInFlight == \A t \in Threads : ~InFlight(t)

\* the candidate pool of the call recorded in r
PoolSize(r) ==
    CASE variant = "Deterministic" ->
           IF r.op = "route" THEN expert_count ELSE Cardinality(DOMAIN r.weights)
      [] variant = "Gating" -> Cardinality(DOMAIN gate_weights)
      [] variant = "RoundRobin" -> Len(experts)

WidthOK(r) ==
    ~r.out.panic =>
        /\ Len(Ids(r)) <= K(r.tier)
        /\ PoolSize(r) >= K(r.tier) => Len(Ids(r)) = K(r.tier)

\* C1: every decision returned has at most k(tier) ids, and exactly k(tier)
\* when the candidate pool (expert_count, size of the weight map ranked, size
\* of the round-robin pool) is at least k(tier).
C1_WidthBound ==
    /\ DGCall => WidthOK(last)
    /\ \A t \in Threads : RRCall(t) => WidthOK(call[t])

C1_Witness ==
    /\ variant = "Gating" /\ last.op = "route" /\ last.tier = "Nano"
    /\ Cardinality(DOMAIN gate_weights) = 3
    /\ Len(Ids(last)) = 2

\* (token_index + i) mod m over the whole u64, for 1 <= m <= 2^15
U64AddMod(token_index, i, m) ==
    LET p == Limb % m
        p2 == (p * p) % m
        p3 == (p2 * p) % m
        t0 == (token_index[1] + i) % m
        t1 == (t0 + (((token_index[2] % m) * p) % m)) % m
        t2 == (t1 + (((token_index[3] % m) * p2) % m)) % m
    IN  (t2 + (((token_index[4] % m) * p3) % m)) % m

\* id holds v in bytes 0..3, little-endian, and zero in bytes 4..31
EncodesIndex(id, v) ==
    \A j \in 0..31 :
        Byte(id, j) = IF j < 4 THEN (v \div (256 ^ j)) % 256 ELSE 0

\* C2: DeterministicRouter.route returns k(tier) ids, the i-th encoding
\* (token_index + i) mod expert_count, the sum taken over the 64-bit token
\* position, for every expert_count >= 1.
C2_Claim ==
    (variant = "Deterministic" /\ last.op = "route" /\ expert_count >= 1) =>
        /\ ~last.out.panic
        /\ Len(Ids(last)) = K(last.tier)
        /\ \A i \in 1..K(last.tier) :
             EncodesIndex(Ids(last)[i],
                          U64AddMod(last.token_index, i - 1, expert_count))

\* C3: the values fetch_add hands to the calls are pairwise distinct, in every
\* interleaving, and when no call is in flight the cursor has advanced by the
\* number of calls made.
C3_OffsetUnique ==
    /\ \A i, j \in DOMAIN starts : i # j => starts[i] # starts[j]
    /\ \A t, u \in Threads :
         (t # u /\ pc[t] \in {"collect", "returned"} /\ pc[u] \in {"collect", "returned"}
            /\ experts # << >>)
         => call[t].start # call[u].start
    /\ (\A t \in Threads : pc[t] # "fetch_add") => current = entered

C3_Witness ==
    /\ \A t \in Threads : pc[t] = "collect"
    /\ Len(starts) >= 3

\* C4: on a non-empty pool of size n, a call that no other call overlaps and
\* that j calls precede returns k(tier) ids, the i-th being
\* experts[(j + i) mod n], and the cursor advances by one per call.
C4_Rotation ==
    /\ \A t \in Threads :
         (RRCall(t) /\ experts # << >> /\ call[t].alone) =>
            /\ Len(Ids(call[t])) = K(call[t].tier)
            /\ \A i \in 1..K(call[t].tier) :
                 Ids(call[t])[i] = experts[((call[t].seq + (i - 1)) % Len(experts)) + 1]
    /\ NoneInFlight => current = entered

\* the third of three sequential Nano calls on [E0, E1, E2] returns [E2, E0]
C4_Witness ==
    /\ experts = <<A, B, C>>
    /\ \E t \in Threads :
         /\ RRCall(t) /\ call[t].alone /\ call[t].seq = 2
         /\ call[t].tier = "Nano" /\ Ids(call[t]) = <<C, A>>

\* C5: two DeterministicRouter.route calls with the same tier and token_index
\* return the same outcome, whatever calls were made between them.
C5_Deterministic ==
    (variant = "Deterministic" /\ pin.op = "route" /\ last.op = "route"
       /\ pin.tier = last.tier /\ pin.token_index = last.token_index)
    => pin.out = last.out

C5_Witness ==
    /\ variant = "Deterministic" /\ pin.op = "route" /\ last.op = "route"
    /\ pin.tier = "Max" /\ last.tier = "Max"
    /\ pin.token_index = last.token_index
    /\ expert_count = 5 /\ ~last.out.panic /\ pin.out = last.out

\* C6: no routing call of any strategy panics.
C6_NoFault ==
    /\ DGCall => ~last.out.panic
    /\ \A t \in Threads : RRCall(t) => ~call[t].out.panic

CmpLess(a, b) == partial_cmp(a, b) = "Less"

\* ids are min(k, |w|) distinct keys of w, none ranked before a key of greater
\* weight, and no key left out outweighs a key taken
TopKByWeight(w, ids, k) ==
    /\ Len(ids) = Min(k, Cardinality(DOMAIN w))
    /\ \A i \in DOMAIN ids : ids[i] \in DOMAIN w
    /\ \A i, j \in DOMAIN ids : i # j => ids[i] # ids[j]
    /\ \A i, j \in DOMAIN ids : i < j => ~CmpLess(w[ids[i]], w[ids[j]])
    /\ \A x \in (DOMAIN w) \ Range(ids) : \A i \in DOMAIN ids :
         ~CmpLess(w[ids[i]], w[x])

\* keys of equal weight keep the order in which the map yielded them
TiesInOrder(w, order, ids) ==
    /\ \A i, j \in DOMAIN ids :
         (i < j /\ partial_cmp(w[ids[i]], w[ids[j]]) = "Equal")
         => Pos(order, ids[i]) < Pos(order, ids[j])
    /\ \A x \in (DOMAIN w) \ Range(ids) : \A i \in DOMAIN ids :
         partial_cmp(w[ids[i]], w[x]) = "Equal" => Pos(order, ids[i]) < Pos(order, x)

NoNaN(w) == \A x \in DOMAIN w : ~IsNaN(w[x])

DetWeighted == variant = "Deterministic" /\ last.op = "route_with_weights"

\* C7 as claimed: DeterministicRouter.route_with_weights returns
\* min(k(tier), |weights|) distinct keys in non-increasing order of weight, no
\* key left out having a weight greater than a key returned.
C7_Claim ==
    DetWeighted => TopKByWeight(last.weights, Ids(last), K(last.tier))

\* C7 as amended: the same for a weight map without NaN, and then the result
\* is fixed by the map, its iteration order and the tier alone (keys of equal
\* weight keep their iteration order), whatever token_index and expert_count.
C7_Amended ==
    (DetWeighted /\ NoNaN(last.weights)) =>
        /\ ~last.out.panic
        /\ TopKByWeight(last.weights, Ids(last), K(last.tier))
        /\ TiesInOrder(last.weights, last.order, Ids(last))

C7_Witness ==
    /\ DetWeighted /\ expert_count = 5
    /\ last.weights = TiedMap /\ last.order = <<B, C, A>>
    /\ last.tier = "Nano" /\ Ids(last) = <<C, B>>

Probs == softmax(gate_weights, temperature)

\* no two entries compare Equal (a NaN compares to nothing)
PairwiseDistinct(w) ==
    \A x, y \in DOMAIN w : x # y => partial_cmp(w[x], w[y]) # "Equal"

\* every two entries compare Less or Greater
StrictlyOrdered(w) ==
    \A x, y \in DOMAIN w : x # y => partial_cmp(w[x], w[y]) \in {"Less", "Greater"}

GateCall == variant = "Gating" /\ last.op # "none"

\* C8 as claimed: GatingRouter.route returns the min(k(tier), n) experts of
\* the current map of highest softmax probability, in descending order, and
\* for pairwise distinct gate weights these are the top k keys by gate weight.
C8_Claim ==
    GateCall =>
        /\ TopKByWeight(Probs, Ids(last), K(last.tier))
        /\ PairwiseDistinct(gate_weights)
             => TopKByWeight(gate_weights, Ids(last), K(last.tier))

\* C8 as amended: ... and these are the top k keys by gate weight when the
\* probabilities computed (not only the weights) are pairwise distinct and
\* none is NaN; the result then does not depend on token_index.
C8_Amended ==
    GateCall =>
        /\ ~last.out.panic
        /\ TopKByWeight(Probs, Ids(last), K(last.tier))
        /\ StrictlyOrdered(Probs) =>
             /\ TopKByWeight(gate_weights, Ids(last), K(last.tier))
             /\ (pin.op = "route" /\ pin.tier = last.tier) => pin.out = last.out

\* {A: 0.5, B: 0.3, C: 0.2}, temperature 1.0, Nano: [A, B]
C8_Witness ==
    /\ GateCall /\ last.op = "route"
    /\ gate_weights = ScenarioC /\ temperature = Num(100)
    /\ last.tier = "Nano" /\ Ids(last) = <<A, B>>

\* a round-robin call returns the rotation read at the cursor value it drew
RRIgnoresWeights ==
    /\ \A t \in Threads :
         (RRCall(t) /\ experts # << >>) =>
            /\ Len(Ids(call[t])) = K(call[t].tier)
            /\ \A i \in 1..K(call[t].tier) :
                 Ids(call[t])[i] = experts[((call[t].start + (i - 1)) % Len(experts)) + 1]
    /\ \A t \in Threads : (RRCall(t) /\ experts = << >>) => Ids(call[t]) = << >>
    /\ NoneInFlight => current = entered

SameCallAsPin ==
    /\ variant = "Gating" /\ pin.op = "route" /\ last.op # "none"
    /\ pin.tier = last.tier /\ pin.token_index = last.token_index

\* C9 as claimed: on GatingRouter and RoundRobinRouter route_with_weights
\* returns, whatever map is supplied, the decision route returns from the same
\* state.
C9_Claim ==
    /\ (SameCallAsPin /\ last.op = "route_with_weights") => last.out = pin.out
    /\ RRIgnoresWeights

\* C9 as amended: for RoundRobinRouter as claimed; for GatingRouter the
\* decisions agree when the probabilities of the internal map are pairwise
\* distinct and none is NaN, and otherwise each call, route included, returns
\* one of the decisions route can return from that state.
C9_Amended ==
    /\ (SameCallAsPin /\ StrictlyOrdered(Probs)) => last.out = pin.out
    /\ GateCall =>
         last.out \in { GatingRouter_route(gate_weights, temperature, last.tier,
                                           last.token_index, po) :
                          po \in IterOrders(DOMAIN gate_weights) }
    /\ RRIgnoresWeights

C9_Witness ==
    /\ SameCallAsPin /\ last.op = "route_with_weights"
    /\ last.weights = TiedMap /\ gate_weights = ScenarioC
    /\ last.tier = "Nano" /\ Ids(last) = <<A, B>>

\* C10: no step changes expert_count, temperature or the round-robin pool;
\* gate_weights changes only in a setter; the cursor changes only in a
\* fetch_add and never decreases.
C10_Frame ==
    [][ /\ expert_count' = expert_count
        /\ temperature' = temperature
        /\ experts' = experts
        /\ gate_weights' # gate_weights =>
             /\ \A t \in Threads : Idle(t)
             /\ last' = NoCall
             /\ \/ \E e \in GateEntries : gate_weights' = insert(gate_weights, e[1], e[2])
                \/ gate_weights' \in GateMaps
        /\ current' >= current
        /\ current' # current =>
             \E t \in Threads : pc[t] = "fetch_add" /\ pc'[t] = "collect" ]_vars

C10_Witness ==
    /\ variant = "RoundRobin" /\ current = 3
    /\ \E t \in Threads : RRCall(t) /\ call[t].op = "route_with_weights"

====
